---- MODULE Spec2Model ----
(***************************************************************************)
(* Model of the lofi audio session (class AudioProcessor), of the page     *)
(* handlers that drive it (Index) and of the WAV encoder.                  *)
(*                                                                         *)
(* Units.  Times are whole seconds of the host clock.  Frequencies are in  *)
(* Hz.  Q, compressor threshold and ratio, gains and playback rates are in *)
(* thousandths (3.5 is 3500), so that every coefficient formula of the     *)
(* source is exact integer arithmetic on the 0..100 slider values.         *)
(***************************************************************************)
EXTENDS Integers, Sequences, FiniteSets, TLC

\* ------------------------------------------------------------------ bounds
MaxClock == 5
MaxInstances == 3
MaxRenders == 2
MaxFrames == 2
\* samples are the fractions n / SampleDen
SampleDen == 3

\* ------------------------------------------------------------ input domains
NULL == [null |-> TRUE]

\* the optional argument of play(startTime = 0)
Arg(t) == [given |-> TRUE, value |-> t]
NoArg == [given |-> FALSE, value |-> 0]

Settings(s, r, l) == [slowdown |-> s, reverb |-> r, lowpass |-> l]

\* the pass-through setting and the worked example of the design
SettingsSet == {Settings(100, 0, 0), Settings(85, 30, 50)}

\* settings swept through the parameter mapping: the whole lowpass range under
\* the worked example, the pass-through setting, and values outside the
\* contractual ranges (slowdown 70..100, reverb and lowpass 0..100)
SweepSettings ==
    {Settings(85, 30, l) : l \in 0..100}
        \cup {Settings(100, 0, 0)}
        \cup {Settings(s, r, l) : s \in {50, 70, 100}, r \in {0, 100, 150},
                                  l \in {-10, 50, 150}}

\* ambient volumes the player's slider passes to setAmbientVolume (thousandths)
AmbientVolumes == {0, 800}

\* duration of the uploaded track as the player reads it from the file's
\* metadata (seconds)
TrackDuration == 4

\* play / seekTo positions (seconds)
Times == {0, 10}
PlayArgs == {Arg(t) : t \in Times} \cup {NoArg}

\* decoded primary assets, by frame count
Assets == {[length |-> 3, numberOfChannels |-> 2, sampleRate |-> 44100]}

\* decoded ambient assets, by frame count
AmbientAssets == {[length |-> 3]}

\* ambient assets and settings for renders with an ambient track: an ambient
\* asset shorter than, as long as and longer than the primary asset, under no,
\* some and the strongest slowdown
RenderAmbientAssets == {[length |-> 1], [length |-> 3], [length |-> 5]}
RenderSettings == {Settings(100, 0, 0), Settings(85, 30, 50), Settings(70, 0, 0)}

\* sample numerators: beyond -1, -1 itself, inside (-1, 0), zero, inside (0, 1),
\* 1 itself, beyond 1
SampleNums == {-(SampleDen + 1), -SampleDen, -1, 0, 1, SampleDen, SampleDen + 1}

SampleRates == {8000, 44100}

\* mono and stereo
ChannelCounts == {1, 2}

\* an AudioBuffer of c channels and f frames at the given rate; d holds the
\* sample numerators, channel by channel, and den their common denominator
AudioBuffer(c, rate, f, d) ==
    [numberOfChannels |-> c, sampleRate |-> rate, length |-> f, den |-> SampleDen,
     channels |-> d]

\* lowpass slider values handed to the bit crusher on its own: all of 0..20 and
\* three stronger settings
CrushLowpass == (0..20) \cup {50, 60, 100}

\* sample numerators of the buffers handed to the bit crusher on its own
CrushNums == {-(SampleDen + 1), -1, 0, 1, SampleDen}

RenderIds == 1..MaxRenders
InstanceIds == 1..MaxInstances

VARIABLES
    now,
    audioBuffer, ambientBuffer, processingReady,
    lowpassNode, highpassNode, compressorNode, gainNode, reverbNode, analyserNode,
    sourceNode, ambientSourceNode, ambientGainNode, dryGain, wetGain,
    playing, startTime, pauseTime, effectsSettings,
    instances, ambientActive, connections, loadPc, ambientPc,
    renders,
    uploadedFile, isProcessing, isProcessed, currentEffects, applyPc,
    playerIsPlaying, playerCurrentTime,
    wavIn, wavOut,
    renderedBuffer, crushLowpass, bitCrushedBuffer,
    lastCall, lastAmbientVolume

clockVars == <<now>>
bufferVars == <<audioBuffer, ambientBuffer>>
nodeVars == <<processingReady, lowpassNode, highpassNode, compressorNode, gainNode,
              reverbNode, analyserNode>>
playVars == <<sourceNode, ambientSourceNode, ambientGainNode, dryGain, wetGain, instances,
              ambientActive, connections>>
transportVars == <<playing, startTime, pauseTime>>
loadVars == <<loadPc, ambientPc>>

sessionVars == <<bufferVars, nodeVars, playVars, transportVars, effectsSettings, loadVars>>

renderVars == <<renders>>
\* the player the page renders: its isPlaying and currentTime state
playerVars == <<playerIsPlaying, playerCurrentTime>>

pageVars == <<uploadedFile, isProcessing, isProcessed, currentEffects, applyPc, playerVars>>

wavVars == <<wavIn, wavOut>>

\* the bit crusher applied on its own: its input, the lowpass slider, its output
crushVars == <<renderedBuffer, crushLowpass, bitCrushedBuffer>>

\* the variables of the functions checked on their own
pureVars == <<wavVars, crushVars>>

\* history: the most recent transport call on the session, and the value most
\* recently passed to setAmbientVolume (NoArg before the first call)
histVars == <<lastCall, lastAmbientVolume>>

vars == <<clockVars, sessionVars, renderVars, pageVars, pureVars, histVars>>

\* --------------------------------------------------------- live coefficients
\* the cutoff mapped without the inversion (0 % would filter most)
AppliedLowpassDirect(effects) ==
    [frequency |-> 100 + ((20000 - 100) * effects.lowpass) \div 100,
     Q |-> 1000 + (effects.lowpass * 5 * 1000) \div 100]

\* lowpassNode after applyEffects(effects)
AppliedLowpass(effects) ==
    [frequency |-> 100 + ((20000 - 100) * (100 - effects.lowpass)) \div 100,
     Q |-> 1000 + (effects.lowpass * 5 * 1000) \div 100]

\* highpassNode after applyEffects(effects)
AppliedHighpass(effects) ==
    [frequency |-> 20 + (effects.lowpass * 200) \div 100]

\* compressorNode after applyEffects(effects); averageEffectsIntensity = (lowpass + reverb) / 200
AppliedCompressor(effects) ==
    [threshold |-> -24000 - ((effects.lowpass + effects.reverb) * 12 * 1000) \div 200,
     ratio |-> 4000 + ((effects.lowpass + effects.reverb) * 8 * 1000) \div 200]

\* nodes as setupNodes creates them: a BiquadFilterNode starts at 350 Hz, Q = 1
DefaultLowpass == [frequency |-> 350, Q |-> 1000]
DefaultHighpass == [frequency |-> 20]
DefaultCompressor == [threshold |-> -24000, ratio |-> 12000]

\* one invocation of createProcessedAudioBlob that has not been called yet.
\* ctx, graph, mix and crush are what the call has built so far, renderedBuffer
\* what startRendering returned and bitCrushedBuffer what the encoder was
\* handed; the start* and
\* mixSettings fields record what the session held when the call started and
\* when it built the mix.
IdleRender ==
    [pc |-> "idle", caller |-> "none", ctx |-> NULL, graph |-> NULL, mix |-> NULL,
     crush |-> NULL, renderedBuffer |-> NULL, bitCrushedBuffer |-> NULL,
     result |-> "none", download |-> FALSE,
     startSettings |-> NULL, startAmbient |-> NULL, startAudio |-> NULL,
     mixSettings |-> NULL]

\* --------------------------------------------------------------- transport
getCurrentTime ==
    IF ~playing THEN pauseTime ELSE now - startTime

isPlaying == playing

InitSession ==
    /\ now = 0
    /\ audioBuffer = NULL /\ ambientBuffer = NULL /\ processingReady = FALSE
    /\ lowpassNode = NULL /\ highpassNode = NULL /\ compressorNode = NULL
    /\ gainNode = NULL /\ reverbNode = NULL /\ analyserNode = NULL
    /\ sourceNode = NULL /\ ambientSourceNode = NULL /\ ambientGainNode = NULL
    /\ dryGain = NULL /\ wetGain = NULL
    /\ playing = FALSE /\ startTime = 0 /\ pauseTime = 0
    /\ effectsSettings = NULL
    /\ instances = [i \in InstanceIds |-> "free"]
    /\ ambientActive = 0
    /\ connections = {}
    /\ loadPc = "idle" /\ ambientPc = "idle"
    /\ renders = [r \in RenderIds |-> IdleRender]
    /\ uploadedFile = FALSE /\ isProcessing = FALSE /\ isProcessed = FALSE
    /\ currentEffects = NULL /\ applyPc = "idle"
    /\ playerIsPlaying = FALSE /\ playerCurrentTime = 0
    /\ lastCall = [op |-> "none", arg |-> NoArg, wasPlaying |-> FALSE]
    /\ lastAmbientVolume = NoArg

InitWavIdle == wavIn = NULL /\ wavOut = <<>>

InitCrushIdle == renderedBuffer = NULL /\ crushLowpass = 0 /\ bitCrushedBuffer = NULL

Init ==
    /\ InitSession
    /\ InitWavIdle
    /\ InitCrushIdle

\* ------------------------------------------------------------ audio graphs
\* A node of an audio graph.  The nodes setupNodes creates, the main gain and
\* the destination exist once per graph (id 0); a source and the dry, wet and
\* ambient gain stages created with it carry the id of that source.
Node(kind, id) == [kind |-> kind, id |-> id]
Stage(kind) == Node(kind, 0)

\* a.connect(b)
Connect(a, b) == [from |-> a, to |-> b]

\* the connect calls of play when every processing node exists
LiveChain(id) ==
    {Connect(Node("source", id), Stage("highpass")),
     Connect(Stage("highpass"), Stage("lowpass")),
     Connect(Stage("lowpass"), Stage("compressor")),
     Connect(Stage("compressor"), Node("dryGain", id)),
     Connect(Node("dryGain", id), Stage("gain")),
     Connect(Stage("compressor"), Stage("reverb")),
     Connect(Stage("reverb"), Node("wetGain", id)),
     Connect(Node("wetGain", id), Stage("gain")),
     Connect(Stage("gain"), Stage("analyser")),
     Connect(Stage("analyser"), Stage("destination"))}

\* the connect calls of play when a processing node is missing
FallbackChain(id) ==
    IF gainNode = NULL THEN {}
    ELSE {Connect(Node("source", id), Stage("gain")),
          Connect(Stage("gain"), Stage("destination"))}

\* the ambient gain routed into the main gain instead of the destination
AmbientChainThroughGain(id) ==
    {Connect(Node("ambientSource", id), Node("ambientGain", id)),
     Connect(Node("ambientGain", id), Stage("gain"))}

\* the connect calls of playAmbientSound (and of the ambient part of a render)
AmbientChain(id) ==
    {Connect(Node("ambientSource", id), Node("ambientGain", id)),
     Connect(Node("ambientGain", id), Stage("destination"))}

\* the connect calls of createProcessedAudioBlob on its offline context
OfflineChain ==
    {Connect(Node("source", 1), Stage("highpass")),
     Connect(Stage("highpass"), Stage("lowpass")),
     Connect(Stage("lowpass"), Stage("compressor")),
     Connect(Stage("compressor"), Node("dryGain", 1)),
     Connect(Node("dryGain", 1), Stage("gain")),
     Connect(Stage("compressor"), Stage("reverb")),
     Connect(Stage("reverb"), Node("wetGain", 1)),
     Connect(Node("wetGain", 1), Stage("gain")),
     Connect(Stage("gain"), Stage("destination"))}

\* ------------------------------------------------- transport as functions
\* The transport methods call one another (play calls pause, seekTo calls
\* pause and play), so each is a function on the record of the fields they
\* write; the actions below commit the result.
Cur ==
    [playing |-> playing, startTime |-> startTime, pauseTime |-> pauseTime,
     sourceNode |-> sourceNode, ambientSourceNode |-> ambientSourceNode,
     ambientGainNode |-> ambientGainNode, dryGain |-> dryGain, wetGain |-> wetGain,
     instances |-> instances, ambientActive |-> ambientActive,
     connections |-> connections]

Commit(s) ==
    /\ playing' = s.playing
    /\ startTime' = s.startTime
    /\ pauseTime' = s.pauseTime
    /\ sourceNode' = s.sourceNode
    /\ ambientSourceNode' = s.ambientSourceNode
    /\ ambientGainNode' = s.ambientGainNode
    /\ dryGain' = s.dryGain
    /\ wetGain' = s.wetGain
    /\ instances' = s.instances
    /\ ambientActive' = s.ambientActive
    /\ connections' = s.connections

currentTimeOf(s) ==
    IF ~s.playing THEN s.pauseTime ELSE now - s.startTime

\* the connections that still carry signal once the sources of s are stopped:
\* a stopped source has ended for good, and so has the ambient gain that only
\* the stopped ambient source feeds; nothing else is disconnected
StillConnected(s) ==
    {c \in s.connections :
        /\ ~(s.sourceNode # NULL /\ c.from = Node("source", s.sourceNode.id))
        /\ ~(s.ambientSourceNode # NULL /\ c.from.kind \in {"ambientSource", "ambientGain"})}

\* stopAll that stops the primary source only
stopMainOnly(s) ==
    [s EXCEPT !.sourceNode = NULL,
              !.instances = IF s.sourceNode # NULL
                            THEN [s.instances EXCEPT ![s.sourceNode.id] = "stopped"]
                            ELSE s.instances]

\* ambientActive counts the ambient sources that were started and not stopped
stopAll(s) ==
    [s EXCEPT !.sourceNode = NULL,
              !.instances = IF s.sourceNode # NULL
                            THEN [s.instances EXCEPT ![s.sourceNode.id] = "stopped"]
                            ELSE s.instances,
              !.ambientSourceNode = NULL,
              !.ambientActive = IF s.ambientSourceNode # NULL
                                THEN s.ambientActive - 1
                                ELSE s.ambientActive,
              !.connections = StillConnected(s)]

\* pause that forgets to store the position
pauseNoStore(s) ==
    IF ~s.playing THEN s
    ELSE [stopAll(s) EXCEPT !.playing = FALSE]

pause(s) ==
    IF ~s.playing THEN s
    ELSE [stopAll([s EXCEPT !.pauseTime = currentTimeOf(s)]) EXCEPT !.playing = FALSE]

HasFree(s) == \E i \in InstanceIds : s.instances[i] = "free"
FreeId(s) == CHOOSE i \in InstanceIds :
                /\ s.instances[i] = "free"
                /\ \A j \in InstanceIds : s.instances[j] = "free" => i <= j

\* start() is called without an offset: the ambient source starts at 0
playAmbientSound(s) ==
    IF ambientBuffer = NULL THEN s
    ELSE [s EXCEPT !.ambientSourceNode = [buffer |-> ambientBuffer, loop |-> TRUE,
                                          offset |-> 0],
                   !.ambientGainNode = [gain |-> 300],
                   !.ambientActive = s.ambientActive + 1,
                   !.connections = s.connections \cup AmbientChain(s.sourceNode.id)]

\* the source node play creates: a fresh instance, slowed by playbackRate
\* (settings records the EffectsSettings value the instance was built under)
NewSource(s, offset) ==
    [id |-> FreeId(s), offset |-> offset,
     playbackRate |-> IF effectsSettings # NULL
                      THEN (effectsSettings.slowdown * 1000) \div 100
                      ELSE 1000,
     settings |-> effectsSettings]

\* the dry and wet gain stages play creates (a GainNode starts at gain 1)
NewDryGain ==
    [gain |-> IF effectsSettings # NULL
              THEN 1000 - (effectsSettings.reverb * 1000) \div 100
              ELSE 1000]

NewWetGain ==
    [gain |-> IF effectsSettings # NULL
              THEN (effectsSettings.reverb * 600) \div 100
              ELSE 1000]

FullChain ==
    /\ lowpassNode # NULL /\ highpassNode # NULL /\ compressorNode # NULL
    /\ reverbNode # NULL /\ analyserNode # NULL /\ gainNode # NULL

\* play that starts a new source without stopping the one that plays
playNoStop(s0, arg) ==
    LET offset == IF arg.given THEN arg.value ELSE 0
    IN  IF audioBuffer = NULL THEN s0
        ELSE LET src == NewSource(s0, offset)
                 s2 == [s0 EXCEPT !.sourceNode = src,
                                  !.instances = [s0.instances EXCEPT ![src.id] = "started"],
                                  !.dryGain = IF FullChain THEN NewDryGain ELSE s0.dryGain,
                                  !.wetGain = IF FullChain THEN NewWetGain ELSE s0.wetGain,
                                  !.connections = s0.connections \cup
                                      (IF FullChain THEN LiveChain(src.id)
                                       ELSE FallbackChain(src.id)),
                                  !.startTime = now - offset]
             IN  [playAmbientSound(s2) EXCEPT !.playing = TRUE]

play(s0, arg) ==
    LET offset == IF arg.given THEN arg.value ELSE 0
        s1 == IF s0.playing THEN pause(s0) ELSE s0
    IN  IF audioBuffer = NULL THEN s1
        ELSE LET src == NewSource(s1, offset)
                 s2 == [s1 EXCEPT !.sourceNode = src,
                                  !.instances = [s1.instances EXCEPT ![src.id] = "started"],
                                  !.dryGain = IF FullChain THEN NewDryGain ELSE s1.dryGain,
                                  !.wetGain = IF FullChain THEN NewWetGain ELSE s1.wetGain,
                                  !.connections = s1.connections \cup
                                      (IF FullChain THEN LiveChain(src.id)
                                       ELSE FallbackChain(src.id)),
                                  !.startTime = now - offset]
             IN  [playAmbientSound(s2) EXCEPT !.playing = TRUE]

\* seekTo that does not restart playback
seekToNoRestart(s0, time) ==
    [pause(s0) EXCEPT !.pauseTime = time]

seekTo(s0, time) ==
    LET wasPlaying == s0.playing
        s1 == [pause(s0) EXCEPT !.pauseTime = time]
    IN  IF wasPlaying THEN play(s1, Arg(time)) ELSE s1

\* ------------------------------------------------------------------ actions
\* setupNodes: every processing node is created with its default values
setupNodes ==
    /\ gainNode' = [gain |-> 1000]
    /\ lowpassNode' = DefaultLowpass
    /\ highpassNode' = DefaultHighpass
    /\ compressorNode' = DefaultCompressor
    /\ analyserNode' = [fftSize |-> 256]
    /\ reverbNode' = [buffer |-> "impulse"]
    /\ processingReady' = TRUE

\* loadAudioFile(file) is called; the decode is in flight.  A session decodes
\* one primary asset: the page constructs a new AudioProcessor per file.
LoadAudioFile ==
    /\ loadPc # "decoding"
    /\ audioBuffer = NULL
    /\ loadPc' = "decoding"
    /\ UNCHANGED <<clockVars, histVars, bufferVars, nodeVars, playVars, transportVars,
                   effectsSettings, ambientPc, renderVars, pageVars, pureVars>>

\* decodeAudioData resolves: the buffer is stored and the nodes are set up
DecodeOk(asset) ==
    /\ loadPc = "decoding"
    /\ audioBuffer' = asset
    /\ setupNodes
    /\ loadPc' = "resolved"
    /\ UNCHANGED <<clockVars, histVars, ambientBuffer, playVars, transportVars,
                   effectsSettings, ambientPc, renderVars, pageVars, pureVars>>

\* a load that sets the nodes up before the decode has succeeded
DecodeFailAfterSetup ==
    /\ loadPc = "decoding"
    /\ setupNodes
    /\ loadPc' = "rejected"
    /\ UNCHANGED <<clockVars, histVars, bufferVars, playVars, transportVars,
                   effectsSettings, ambientPc, renderVars, pageVars, pureVars>>

\* file.arrayBuffer() or decodeAudioData rejects: loadAudioFile rejects
DecodeFail ==
    /\ loadPc = "decoding"
    /\ loadPc' = "rejected"
    /\ UNCHANGED <<clockVars, histVars, bufferVars, nodeVars, playVars, transportVars,
                   effectsSettings, ambientPc, renderVars, pageVars, pureVars>>

\* loadAmbientSound(url) is called; fetch and decode are in flight
LoadAmbientSound ==
    /\ ambientPc # "loading"
    /\ ambientPc' = "loading"
    /\ UNCHANGED pageVars
    /\ UNCHANGED <<clockVars, histVars, bufferVars, nodeVars, playVars, transportVars,
                   effectsSettings, loadPc, renderVars, pureVars>>

\* handleApplyEffects, when it awaits this load, continues once it settles
applyContinues ==
    /\ applyPc' = IF applyPc = "awaitAmbient" THEN "timer" ELSE applyPc
    /\ UNCHANGED <<uploadedFile, isProcessing, isProcessed, currentEffects, playerVars>>

AmbientOk(asset) ==
    /\ ambientPc = "loading"
    /\ ambientBuffer' = asset
    /\ ambientPc' = "resolved"
    /\ applyContinues
    /\ UNCHANGED <<clockVars, histVars, audioBuffer, nodeVars, playVars, transportVars,
                   effectsSettings, loadPc, renderVars, pureVars>>

\* the failure is caught and logged; the promise still resolves
AmbientFail ==
    /\ ambientPc = "loading"
    /\ ambientPc' = "resolved"
    /\ applyContinues
    /\ UNCHANGED <<clockVars, histVars, bufferVars, nodeVars, playVars, transportVars,
                   effectsSettings, loadPc, renderVars, pureVars>>

\* applyEffects(effects): the node fields after the call
applyEffects(effects) ==
    IF ~processingReady \/ audioBuffer = NULL
    THEN UNCHANGED <<lowpassNode, highpassNode, compressorNode>>
    ELSE /\ lowpassNode' = IF lowpassNode # NULL THEN AppliedLowpass(effects) ELSE lowpassNode
         /\ highpassNode' = IF highpassNode # NULL THEN AppliedHighpass(effects) ELSE highpassNode
         /\ compressorNode' = IF compressorNode # NULL THEN AppliedCompressor(effects)
                              ELSE compressorNode

setEffectsSettings(effects) ==
    /\ effectsSettings' = effects
    /\ applyEffects(effects)

SetEffectsSettings(effects) ==
    /\ setEffectsSettings(effects)
    /\ UNCHANGED <<clockVars, histVars, bufferVars, processingReady, gainNode, reverbNode,
                   analyserNode, playVars, transportVars, loadVars, renderVars, pageVars, pureVars>>

Play(arg) ==
    /\ audioBuffer # NULL => HasFree(Cur)
    /\ Commit(play(Cur, arg))
    /\ lastCall' = [op |-> "play", arg |-> arg, wasPlaying |-> playing]
    /\ UNCHANGED lastAmbientVolume
    /\ UNCHANGED <<clockVars, bufferVars, nodeVars, effectsSettings, loadVars,
                   renderVars, pageVars, pureVars>>

Pause ==
    /\ Commit(pause(Cur))
    /\ lastCall' = [op |-> "pause", arg |-> NoArg, wasPlaying |-> playing]
    /\ UNCHANGED lastAmbientVolume
    /\ UNCHANGED <<clockVars, bufferVars, nodeVars, effectsSettings, loadVars,
                   renderVars, pageVars, pureVars>>

SeekTo(time) ==
    /\ (playing /\ audioBuffer # NULL) => HasFree(Cur)
    /\ Commit(seekTo(Cur, time))
    /\ lastCall' = [op |-> "seekTo", arg |-> Arg(time), wasPlaying |-> playing]
    /\ UNCHANGED lastAmbientVolume
    /\ UNCHANGED <<clockVars, bufferVars, nodeVars, effectsSettings, loadVars,
                   renderVars, pageVars, pureVars>>

\* setAmbientVolume(volume): sets the gain of the ambient gain node, if one exists
SetAmbientVolume(volume) ==
    /\ ambientGainNode' = IF ambientGainNode # NULL THEN [gain |-> volume]
                           ELSE ambientGainNode
    /\ lastAmbientVolume' = Arg(volume)
    /\ UNCHANGED <<clockVars, lastCall, bufferVars, nodeVars, sourceNode, ambientSourceNode,
                   dryGain, wetGain, instances, ambientActive, connections,
                   transportVars, effectsSettings, loadVars, renderVars, pageVars, pureVars>>

\* ------------------------------------------------------- offline rendering
\* frames of the OfflineAudioContext: length * (100 / slowdown) is handed to an
\* unsigned long parameter, which drops the fraction
RenderLength(length, slowdown) == (length * 100) \div slowdown

\* coefficients createProcessedAudioBlob sets on the offline graph
OfflinePlaybackRate(s) == (s.slowdown * 1000) \div 100

\* the cutoff mapped without the inversion (0 % would filter most)
OfflineLowpassDirect(s) ==
    [frequency |-> 100 + ((20000 - 100) * s.lowpass) \div 100,
     Q |-> 1000 + (s.lowpass * 5 * 1000) \div 100]

OfflineLowpass(s) ==
    [frequency |-> 100 + ((20000 - 100) * (100 - s.lowpass)) \div 100,
     Q |-> 1000 + (s.lowpass * 5 * 1000) \div 100]

OfflineHighpass(s) ==
    [frequency |-> 20 + (s.lowpass * 200) \div 100]

OfflineCompressor == [threshold |-> -24000, ratio |-> 12000]

OfflineDryGain(s) == [gain |-> 1000 - (s.reverb * 1000) \div 100]

OfflineWetGain(s) == [gain |-> (s.reverb * 600) \div 100]

\* the ambient source of the offline graph: looped when shorter than the
\* stretched main track (durations compared as frame counts at one sample rate)
OfflineAmbient ==
    IF ambientBuffer = NULL THEN NULL
    ELSE [buffer |-> ambientBuffer,
          loop |-> ambientBuffer.length * effectsSettings.slowdown < audioBuffer.length * 100]

\* intensity handed to applyBitCrushing, in thousandths
CrushIntensity(s) == (s.lowpass * 1000) \div 100

\* ------------------------------------------------------------- bit crusher
RECURSIVE Pow2(_)
Pow2(k) == IF k = 0 THEN 1 ELSE 2 * Pow2(k - 1)

\* Math.floor((intensity - 0.2) * 5), intensity in thousandths.  In doubles
\* 0.6 - 0.2 is 0.39999999999999997, so intensity 0.6 gives 1, not 2; every
\* other whole-percent intensity gives the exact floor.
BitReduction(intensity) ==
    IF intensity = 600 THEN 1 ELSE ((intensity - 200) * 5) \div 1000

\* Math.max(1, Math.floor(intensity * 4))
SampleReduction(intensity) ==
    LET k == (intensity * 4) \div 1000
    IN  IF k > 1 THEN k ELSE 1

\* (Math.floor(sample * 32767) & bitMask) for the sample n / den: the numerator
\* of the crushed sample over 32767 (the mask clears the low bits of the
\* two's-complement value, which rounds towards minus infinity)
Quantize(n, den, bitReduction) ==
    LET int16 == (n * 32767) \div den
    IN  (int16 \div Pow2(bitReduction)) * Pow2(bitReduction)

\* index (from 1) of the sample held at index k: the last multiple of
\* sampleReduction at or before it, counted from 0
HeldIndex(k, sampleReduction) == (k - 1) - ((k - 1) % sampleReduction) + 1

\* the crusher without its early return for low intensities
applyBitCrushingAlways(buffer, intensity) ==
    LET bitReduction == IF intensity < 200 THEN 0 ELSE BitReduction(intensity)
        sampleReduction == SampleReduction(intensity)
    IN  [numberOfChannels |-> buffer.numberOfChannels,
         sampleRate |-> buffer.sampleRate,
         length |-> buffer.length,
         den |-> 32767,
         channels |->
            [channel \in 1..buffer.numberOfChannels |->
                [k \in 1..buffer.length |->
                    Quantize(buffer.channels[channel][HeldIndex(k, sampleReduction)],
                             buffer.den, bitReduction)]]]

applyBitCrushing(buffer, intensity) ==
    IF intensity < 200 THEN buffer
    ELSE LET bitReduction == BitReduction(intensity)
             sampleReduction == SampleReduction(intensity)
         IN  [numberOfChannels |-> buffer.numberOfChannels,
              sampleRate |-> buffer.sampleRate,
              length |-> buffer.length,
              den |-> 32767,
              channels |->
                 [channel \in 1..buffer.numberOfChannels |->
                     [k \in 1..buffer.length |->
                         Quantize(buffer.channels[channel][HeldIndex(k, sampleReduction)],
                                  buffer.den, bitReduction)]]]

\* what startRendering may hand back for c channels of f frames: the DSP output
\* is not computed here, two representative buffers stand for it (a constant
\* fraction, and samples alternating between a fraction and a value beyond 1)
RenderedData(c, f) ==
    { [channel \in 1..c |-> [k \in 1..f |-> 1]],
      [channel \in 1..c |-> [k \in 1..f |-> IF (k + channel) % 2 = 0 THEN -1
                                              ELSE SampleDen + 1]] }

\* a render without the try/catch: a failing stage rejects the promise
RenderUncaught == "rejected"

\* the catch block of createProcessedAudioBlob: the promise resolves to null
RenderCaught == "null"

\* handleDownload after its await: a null blob throws into its own catch block,
\* as does a rejection; only a blob reaches a.click()
DownloadStarts(result) ==
    IF result = "rejected" THEN FALSE
    ELSE IF result = "null" THEN FALSE
    ELSE TRUE

Finish(rec, result) ==
    [rec EXCEPT !.pc = "done", !.result = result,
                !.download = (rec.caller = "download" /\ DownloadStarts(result))]

\* invocations are numbered in call order
NextRender(r) ==
    /\ renders[r].pc = "idle"
    /\ \A q \in RenderIds : q < r => renders[q].pc # "idle"

\* createProcessedAudioBlob up to its first await (createOfflineReverb)
createProcessedAudioBlob(r, caller, fail) ==
    LET rec == [renders[r] EXCEPT !.caller = caller,
                                  !.startSettings = effectsSettings,
                                  !.startAmbient = ambientBuffer,
                                  !.startAudio = audioBuffer]
    IN  renders' = [renders EXCEPT ![r] =
            IF audioBuffer = NULL \/ effectsSettings = NULL THEN Finish(rec, "null")
            ELSE IF fail THEN Finish(rec, RenderCaught)
            ELSE [rec EXCEPT
                    !.pc = "awaitReverb",
                    !.ctx = [numberOfChannels |-> audioBuffer.numberOfChannels,
                             length |-> RenderLength(audioBuffer.length,
                                                     effectsSettings.slowdown),
                             sampleRate |-> audioBuffer.sampleRate],
                    !.graph = [playbackRate |-> OfflinePlaybackRate(effectsSettings),
                               lowpass |-> OfflineLowpass(effectsSettings),
                               highpass |-> OfflineHighpass(effectsSettings),
                               compressor |-> OfflineCompressor]]]

\* a client calls createProcessedAudioBlob() on the session
CreateProcessedAudioBlob(r, fail) ==
    /\ NextRender(r)
    /\ createProcessedAudioBlob(r, "facade", fail)
    /\ UNCHANGED <<clockVars, histVars, sessionVars, pageVars, pureVars>>

\* after createOfflineReverb: gains, ambient chain, source.start(), startRendering()
RenderMix(r, fail) ==
    /\ renders[r].pc = "awaitReverb"
    /\ renders' = [renders EXCEPT ![r] =
            IF fail THEN Finish(@, RenderCaught)
            ELSE [@ EXCEPT !.pc = "awaitRender",
                           !.mixSettings = effectsSettings,
                           !.mix = [dryGain |-> OfflineDryGain(effectsSettings),
                                    wetGain |-> OfflineWetGain(effectsSettings),
                                    mainGain |-> [gain |-> 800],
                                    ambient |-> OfflineAmbient,
                                    connections |->
                                        OfflineChain \cup
                                        (IF ambientBuffer # NULL THEN AmbientChain(1)
                                         ELSE {})]]]
    /\ UNCHANGED <<clockVars, histVars, sessionVars, pageVars, pureVars>>

\* after startRendering: bit crushing, WAV encoding, return
RenderFinish(r, fail) ==
    /\ renders[r].pc = "awaitRender"
    /\ \E d \in RenderedData(renders[r].ctx.numberOfChannels, renders[r].ctx.length) :
          LET rendered == AudioBuffer(renders[r].ctx.numberOfChannels,
                                      renders[r].ctx.sampleRate,
                                      renders[r].ctx.length, d)
              intensity == CrushIntensity(effectsSettings)
          IN  renders' = [renders EXCEPT ![r] =
                  IF fail THEN Finish(@, RenderCaught)
                  ELSE Finish([@ EXCEPT !.crush = [intensity |-> intensity],
                                        !.renderedBuffer = rendered,
                                        !.bitCrushedBuffer =
                                            applyBitCrushing(rendered, intensity)],
                              "blob")]
    /\ UNCHANGED <<clockVars, histVars, sessionVars, pageVars, pureVars>>

\* ------------------------------------------------------------ page handlers
\* handleFileSelected, for the file of this session: the page keeps the file,
\* clears isProcessed and starts loadAudioFile on the new processor
HandleFileSelected ==
    /\ ~uploadedFile
    /\ loadPc = "idle"
    /\ uploadedFile' = TRUE
    /\ isProcessed' = FALSE
    /\ loadPc' = "decoding"
    /\ UNCHANGED <<clockVars, histVars, bufferVars, nodeVars, playVars, transportVars,
                   effectsSettings, ambientPc, renderVars, pureVars,
                   isProcessing, currentEffects, applyPc, playerVars>>

\* handleApplyEffects up to its await; the Apply button is enabled while a file
\* is uploaded, not yet processed and no Apply is running
HandleApplyEffects(effects, withAmbient) ==
    /\ uploadedFile /\ ~isProcessed /\ ~isProcessing
    /\ ambientPc # "loading"
    /\ isProcessing' = TRUE
    /\ currentEffects' = effects
    /\ setEffectsSettings(effects)
    /\ IF withAmbient
       THEN ambientPc' = "loading" /\ applyPc' = "awaitAmbient"
       ELSE ambientPc' = ambientPc /\ applyPc' = "timer"
    /\ UNCHANGED <<clockVars, histVars, bufferVars, processingReady, gainNode, reverbNode,
                   analyserNode, playVars, transportVars, loadPc, renderVars, pureVars,
                   uploadedFile, isProcessed, playerVars>>

\* the 1500 ms timer of handleApplyEffects fires
ApplyTimer ==
    /\ applyPc = "timer"
    /\ applyPc' = "idle"
    /\ isProcessing' = FALSE
    /\ isProcessed' = TRUE
    /\ UNCHANGED <<clockVars, histVars, sessionVars, renderVars, pureVars, uploadedFile,
                   currentEffects, playerVars>>

\* handleDownload up to its await
HandleDownload(r, fail) ==
    /\ NextRender(r)
    /\ IF ~uploadedFile \/ ~isProcessed \/ currentEffects = NULL
       THEN UNCHANGED renders
       ELSE createProcessedAudioBlob(r, "download", fail)
    /\ UNCHANGED <<clockVars, histVars, sessionVars, pageVars, pureVars>>

\* ------------------------------------------------------------------ player
\* what the page keeps apart from the player's state
pageFrame == <<uploadedFile, isProcessing, isProcessed, currentEffects, applyPc>>

\* togglePlayback on the processor branch: pause when the player shows playing,
\* play(currentTime) otherwise
TogglePlayback ==
    /\ isProcessed
    /\ IF playerIsPlaying
       THEN /\ Commit(pause(Cur))
            /\ lastCall' = [op |-> "pause", arg |-> NoArg, wasPlaying |-> playing]
       ELSE /\ audioBuffer # NULL => HasFree(Cur)
            /\ Commit(play(Cur, Arg(playerCurrentTime)))
            /\ lastCall' = [op |-> "play", arg |-> Arg(playerCurrentTime),
                            wasPlaying |-> playing]
    /\ playerIsPlaying' = ~playerIsPlaying
    /\ UNCHANGED <<clockVars, lastAmbientVolume, bufferVars, nodeVars, effectsSettings,
                   loadVars, renderVars, pageFrame, playerCurrentTime, pureVars>>

\* the slider is released at time: handleTimeChange, then seekTo(currentTime)
HandleSliderSeek(time) ==
    /\ isProcessed
    /\ (playing /\ audioBuffer # NULL) => HasFree(Cur)
    /\ playerCurrentTime' = time
    /\ Commit(seekTo(Cur, time))
    /\ lastCall' = [op |-> "seekTo", arg |-> Arg(time), wasPlaying |-> playing]
    /\ UNCHANGED <<clockVars, lastAmbientVolume, bufferVars, nodeVars, effectsSettings,
                   loadVars, renderVars, pageFrame, playerIsPlaying, pureVars>>

\* the end-of-track test of updateTime
EndOfTrack == getCurrentTime >= TrackDuration

\* updateTime, the animation frame callback that runs while the player shows
\* playing: it copies getCurrentTime() and, at the end of the track, pauses
\* the processor and resets the player to 0
UpdateTime ==
    /\ isProcessed /\ playerIsPlaying
    /\ IF EndOfTrack
       THEN /\ playerIsPlaying' = FALSE
            /\ playerCurrentTime' = 0
            /\ Commit(pause(Cur))
            /\ lastCall' = [op |-> "pause", arg |-> NoArg, wasPlaying |-> playing]
       ELSE /\ playerCurrentTime' = getCurrentTime
            /\ UNCHANGED <<playerIsPlaying, playVars, transportVars, lastCall>>
    /\ UNCHANGED <<clockVars, lastAmbientVolume, bufferVars, nodeVars, effectsSettings,
                   loadVars, renderVars, pageFrame, pureVars>>

\* -------------------------------------------------------------- WAV encoder
\* DataView.setUint32 / setUint16 / setInt16 with littleEndian = true
\* (the four low-order bytes of v; every size written here is below 2^31)
Uint32LE(v) ==
    <<v % 256, (v \div 256) % 256, (v \div 65536) % 256, (v \div 16777216) % 256>>

Uint16LE(v) ==
    LET u == v % 65536
    IN  <<u % 256, (u \div 256) % 256>>

\* the number n / d with its fraction dropped (ToInt16 truncates towards zero)
Trunc(n, d) == IF n >= 0 THEN n \div d ELSE -((-n) \div d)

\* big-endian byte order instead of little-endian
Int16BE(n, d) ==
    LET u == Trunc(n, d) % 65536
    IN  <<(u \div 256) % 256, u % 256>>

Int16LE(n, d) == Uint16LE(Trunc(n, d))

\* writeString: one byte per character code
writeString(string) ==
    CASE string = "RIFF" -> <<82, 73, 70, 70>>
      [] string = "WAVE" -> <<87, 65, 86, 69>>
      [] string = "fmt " -> <<102, 109, 116, 32>>
      [] string = "data" -> <<100, 97, 116, 97>>

\* the sample scaled and stored without the clamp to [-1, 1]
EncodeSampleNoClamp(n) ==
    LET value == IF n < 0 THEN n * 32768 ELSE n * 32767
    IN  Int16LE(value, SampleDen)

\* one sample n / SampleDen: clamped to [-1, 1], scaled, stored as Int16
EncodeSample(n) ==
    LET sample == IF n > SampleDen THEN SampleDen
                  ELSE IF n < -SampleDen THEN -SampleDen ELSE n
        value == IF sample < 0 THEN sample * 32768 ELSE sample * 32767
    IN  Int16LE(value, SampleDen)

RECURSIVE WavDataPlanar(_, _, _)
\* the samples written channel after channel instead of frame after frame
WavDataPlanar(buffer, i, c) ==
    IF c > buffer.numberOfChannels THEN <<>>
    ELSE IF i > buffer.length THEN WavDataPlanar(buffer, 1, c + 1)
    ELSE EncodeSample(buffer.channels[c][i]) \o WavDataPlanar(buffer, i + 1, c)

RECURSIVE WavData(_, _, _)
\* the samples from frame i, channel c on, channels interleaved within a frame
WavData(buffer, i, c) ==
    IF i > buffer.length THEN <<>>
    ELSE IF c > buffer.numberOfChannels THEN WavData(buffer, i + 1, 1)
    ELSE EncodeSample(buffer.channels[c][i]) \o WavData(buffer, i, c + 1)

audioBufferToWav(buffer) ==
    LET numChannels == buffer.numberOfChannels
        sampleRate == buffer.sampleRate
        format == 1
        bitDepth == 16
        dataLength == buffer.length * numChannels * (bitDepth \div 8)
    IN  writeString("RIFF") \o Uint32LE(36 + dataLength) \o writeString("WAVE")
        \o writeString("fmt ") \o Uint32LE(16) \o Uint16LE(format)
        \o Uint16LE(numChannels) \o Uint32LE(sampleRate)
        \o Uint32LE(sampleRate * numChannels * (bitDepth \div 8))
        \o Uint16LE(numChannels * (bitDepth \div 8)) \o Uint16LE(bitDepth)
        \o writeString("data") \o Uint32LE(dataLength)
        \o WavData(buffer, 1, 1)

InitWav ==
    /\ InitSession
    /\ \E c \in ChannelCounts, f \in 0..MaxFrames, rate \in SampleRates :
          \E d \in [1..c -> [1..f -> SampleNums]] : wavIn = AudioBuffer(c, rate, f, d)
    /\ wavOut = <<>>
    /\ InitCrushIdle

Encode ==
    /\ wavOut = <<>>
    /\ wavOut' = audioBufferToWav(wavIn)
    /\ UNCHANGED <<clockVars, histVars, sessionVars, renderVars, pageVars, wavIn, crushVars>>

\* the bit crusher on every buffer of one or two channels over CrushNums
InitCrush ==
    /\ InitSession
    /\ InitWavIdle
    /\ \E c \in ChannelCounts, f \in 1..MaxFrames :
          \E d \in [1..c -> [1..f -> CrushNums]] :
              renderedBuffer = AudioBuffer(c, 44100, f, d)
    /\ crushLowpass \in CrushLowpass
    /\ bitCrushedBuffer = NULL

\* the render after startRendering: the rendered buffer goes through
\* applyBitCrushing(renderedBuffer, lowpass / 100) on its way to the encoder
BitCrush ==
    /\ bitCrushedBuffer = NULL
    /\ bitCrushedBuffer' = applyBitCrushing(renderedBuffer,
                                            CrushIntensity(Settings(100, 0, crushLowpass)))
    /\ UNCHANGED <<clockVars, histVars, sessionVars, renderVars, pageVars, wavVars,
                   renderedBuffer, crushLowpass>>

\* the host clock advances
Tick ==
    /\ now < MaxClock
    /\ now' = now + 1
    /\ UNCHANGED <<sessionVars, renderVars, pageVars, pureVars, histVars>>

Next ==
    \/ Tick
    \/ LoadAudioFile
    \/ \E a \in Assets : DecodeOk(a)
    \/ DecodeFail
    \/ LoadAmbientSound
    \/ AmbientFail
    \/ \E a \in AmbientAssets : AmbientOk(a)
    \/ \E e \in SettingsSet : SetEffectsSettings(e)
    \/ \E a \in PlayArgs : Play(a)
    \/ Pause
    \/ \E t \in Times : SeekTo(t)

Spec == Init /\ [][Next]_vars

\* the page driving the session: upload, Apply, Download; a client may also
\* call createProcessedAudioBlob directly
NextRenderStep ==
    \/ HandleFileSelected
    \/ \E a \in Assets : DecodeOk(a)
    \/ DecodeFail
    \/ \E e \in SettingsSet, w \in BOOLEAN : HandleApplyEffects(e, w)
    \/ AmbientFail
    \/ \E a \in AmbientAssets : AmbientOk(a)
    \/ ApplyTimer
    \/ \E r \in RenderIds, f \in BOOLEAN : HandleDownload(r, f)
    \/ \E r \in RenderIds, f \in BOOLEAN : CreateProcessedAudioBlob(r, f)
    \/ \E r \in RenderIds, f \in BOOLEAN : RenderMix(r, f)
    \/ \E r \in RenderIds, f \in BOOLEAN : RenderFinish(r, f)

SpecRender == Init /\ [][NextRenderStep]_vars

\* the session facade with live preview next to offline renders
NextFacadeStep ==
    \/ LoadAudioFile
    \/ \E a \in Assets : DecodeOk(a)
    \/ DecodeFail
    \/ LoadAmbientSound
    \/ AmbientFail
    \/ \E a \in AmbientAssets : AmbientOk(a)
    \/ \E e \in SettingsSet : SetEffectsSettings(e)
    \/ Play(NoArg)
    \/ \E r \in RenderIds, f \in BOOLEAN : CreateProcessedAudioBlob(r, f)
    \/ \E r \in RenderIds, f \in BOOLEAN : RenderMix(r, f)
    \/ \E r \in RenderIds, f \in BOOLEAN : RenderFinish(r, f)

SpecFacade == Init /\ [][NextFacadeStep]_vars

\* the facade around the load of the primary asset: no ambient audio, one render
NextLoadStep ==
    \/ LoadAudioFile
    \/ \E a \in Assets : DecodeOk(a)
    \/ DecodeFail
    \/ \E e \in SettingsSet : SetEffectsSettings(e)
    \/ Play(NoArg)
    \/ \E f \in BOOLEAN : CreateProcessedAudioBlob(1, f)
    \/ \E f \in BOOLEAN : RenderMix(1, f)
    \/ \E f \in BOOLEAN : RenderFinish(1, f)

SpecLoad == Init /\ [][NextLoadStep]_vars

\* one settings value applied to a session, previewed once and rendered once
SweepApply(effects) ==
    /\ effectsSettings = NULL
    /\ SetEffectsSettings(effects)

SweepPreview ==
    /\ ~playing
    /\ Play(NoArg)

NextSweepStep ==
    \/ LoadAudioFile
    \/ \E a \in Assets : DecodeOk(a)
    \/ \E e \in SweepSettings : SweepApply(e)
    \/ SweepPreview
    \/ \E f \in BOOLEAN : CreateProcessedAudioBlob(1, f)
    \/ \E f \in BOOLEAN : RenderMix(1, f)
    \/ \E f \in BOOLEAN : RenderFinish(1, f)

SpecSweep == Init /\ [][NextSweepStep]_vars

\* live preview, with every transport call, next to one offline render
NextGraphStep ==
    \/ LoadAudioFile
    \/ \E a \in Assets : DecodeOk(a)
    \/ LoadAmbientSound
    \/ AmbientFail
    \/ \E a \in AmbientAssets : AmbientOk(a)
    \/ \E e \in SettingsSet : SetEffectsSettings(e)
    \/ \E a \in PlayArgs : Play(a)
    \/ Pause
    \/ \E t \in Times : SeekTo(t)
    \/ \E f \in BOOLEAN : CreateProcessedAudioBlob(1, f)
    \/ \E f \in BOOLEAN : RenderMix(1, f)
    \/ \E f \in BOOLEAN : RenderFinish(1, f)

SpecGraph == Init /\ [][NextGraphStep]_vars

\* one offline render of a session with an ambient track, next to the calls
\* that load the assets and set the effects
NextAmbientRenderStep ==
    \/ LoadAudioFile
    \/ \E a \in Assets : DecodeOk(a)
    \/ LoadAmbientSound
    \/ AmbientFail
    \/ \E a \in RenderAmbientAssets : AmbientOk(a)
    \/ \E e \in RenderSettings : SetEffectsSettings(e)
    \/ \E f \in BOOLEAN : CreateProcessedAudioBlob(1, f)
    \/ \E f \in BOOLEAN : RenderMix(1, f)
    \/ \E f \in BOOLEAN : RenderFinish(1, f)

SpecAmbientRender == Init /\ [][NextAmbientRenderStep]_vars

\* live preview with an ambient track whose volume the player sets
NextAmbientVolumeStep ==
    \/ Tick
    \/ LoadAudioFile
    \/ \E a \in Assets : DecodeOk(a)
    \/ LoadAmbientSound
    \/ AmbientFail
    \/ \E a \in AmbientAssets : AmbientOk(a)
    \/ \E v \in AmbientVolumes : SetAmbientVolume(v)
    \/ \E a \in PlayArgs : Play(a)
    \/ Pause
    \/ \E t \in Times : SeekTo(t)

SpecAmbientVolume == Init /\ [][NextAmbientVolumeStep]_vars

\* the page with its player: upload, Apply, then live preview
NextPlayerStep ==
    \/ Tick
    \/ HandleFileSelected
    \/ \E a \in Assets : DecodeOk(a)
    \/ \E e \in SettingsSet : HandleApplyEffects(e, FALSE)
    \/ ApplyTimer
    \/ UpdateTime
    \/ TogglePlayback
    \/ \E t \in Times : HandleSliderSeek(t)

SpecPlayer == Init /\ [][NextPlayerStep]_vars

\* the encoder applied to every buffer InitWav draws
NextWav == Encode

SpecWav == InitWav /\ [][NextWav]_vars

\* the bit crusher applied to every buffer InitCrush draws
NextCrush == BitCrush

SpecCrush == InitCrush /\ [][NextCrush]_vars
\* ======================================================== transport claims
\* C2: getCurrentTime() is the host clock minus the anchor of the most recent
\* play while Playing (so it equals the play's offset right after the play and
\* then advances with the clock), and otherwise it is the position stored by
\* the most recent pause (the clock minus the anchor at that moment) or seekTo;
\* while Paused it does not move when the host clock advances.
C2_Step ==
    /\ (playing' /\ sourceNode' # sourceNode)
          => getCurrentTime' = now - (now - sourceNode'.offset)
    /\ (playing /\ playing' /\ sourceNode' = sourceNode)
          => getCurrentTime' = getCurrentTime + (now' - now)
    /\ (playing /\ ~playing') => getCurrentTime' = getCurrentTime
    /\ (~playing /\ ~playing')
          => \/ getCurrentTime' = getCurrentTime
             \/ \E t \in Times : SeekTo(t) /\ getCurrentTime' = t
    /\ (~playing /\ now' # now) => getCurrentTime' = getCurrentTime

C2_CurrentTime == [][C2_Step]_vars

\* played from 10, paused one second later, and the clock has moved on since
C2_Witness ==
    /\ audioBuffer # NULL /\ ~playing /\ lastCall.op = "pause" /\ lastCall.wasPlaying
    /\ pauseTime = 11 /\ now - startTime > pauseTime

\* C3: paused at position 15 (play(10), five seconds, pause()), a play() with
\* no argument starts the new instance at offset 15 and getCurrentTime()
\* continues from 15.
C3_ResumeNoArg ==
    [][(audioBuffer # NULL /\ ~playing /\ pauseTime = 15 /\ Play(NoArg))
          => (playing' /\ sourceNode'.offset = 15 /\ getCurrentTime' = 15)]_vars

\* a step that writes what only the transport calls write (every play, pause
\* and seekTo step is one, or leaves the session as it was)
WritesTransport ==
    lastCall' # lastCall \/ playVars' # playVars \/ transportVars' # transportVars

\* C4: on a loaded session seekTo(t) keeps the Playing/Paused status and makes
\* getCurrentTime() return t; when Playing the old instance is stopped and a
\* fresh one started at offset t, when Paused no instance is created.
C4_Step ==
    \A t \in Times :
        (audioBuffer # NULL /\ WritesTransport
            /\ lastCall'.op = "seekTo" /\ lastCall'.arg = Arg(t) /\ SeekTo(t)) =>
            /\ playing' = playing
            /\ getCurrentTime' = t
            /\ playing =>
                  /\ sourceNode # NULL /\ sourceNode' # NULL
                  /\ sourceNode'.id # sourceNode.id
                  /\ instances'[sourceNode.id] = "stopped"
                  /\ instances[sourceNode'.id] = "free"
                  /\ instances'[sourceNode'.id] = "started"
                  /\ sourceNode'.offset = t
            /\ ~playing => (sourceNode' = NULL /\ instances' = instances)

C4_SeekTo == [][C4_Step]_vars

\* a seek to 10 while playing from 0: one instance stopped, the next at 10
C4_Witness ==
    /\ audioBuffer # NULL /\ playing
    /\ lastCall = [op |-> "seekTo", arg |-> Arg(10), wasPlaying |-> TRUE]
    /\ sourceNode.offset = 10
    /\ \E i \in InstanceIds : instances[i] = "stopped"

\* C5: without a primary asset play(offset) and seekTo(time) change nothing of
\* the session: playing flag, anchor, paused position, playback instances.
C5_Step ==
    (audioBuffer = NULL /\ ((\E a \in PlayArgs : Play(a)) \/ (\E t \in Times : SeekTo(t))))
        => /\ UNCHANGED <<transportVars, playVars>>
           /\ getCurrentTime' = getCurrentTime
           /\ isPlaying' = isPlaying

C5_NoOpUnloaded == [][C5_Step]_vars

\* =========================================================== render claims
\* the coefficients of the live graph while an instance plays
LiveCoefficients ==
    [playbackRate |-> sourceNode.playbackRate,
     lowpass |-> lowpassNode, highpass |-> highpassNode, compressor |-> compressorNode,
     dryGain |-> dryGain, wetGain |-> wetGain]

\* the coefficients of the offline graph of render r
OfflineCoefficients(r) ==
    [playbackRate |-> renders[r].graph.playbackRate,
     lowpass |-> renders[r].graph.lowpass, highpass |-> renders[r].graph.highpass,
     compressor |-> renders[r].graph.compressor,
     dryGain |-> renders[r].mix.dryGain, wetGain |-> renders[r].mix.wetGain]

\* C1: for settings s, the live graph built by play after setEffectsSettings(s)
\* and the offline graph built by createProcessedAudioBlob under s carry the same
\* coefficient at every stage.
C1_Parity ==
    \A r \in RenderIds :
        (/\ playing /\ effectsSettings # NULL
         /\ sourceNode.settings = effectsSettings
         /\ renders[r].mix # NULL
         /\ renders[r].startSettings = effectsSettings
         /\ renders[r].mixSettings = effectsSettings)
        => LiveCoefficients = OfflineCoefficients(r)

\* C6: createProcessedAudioBlob never rejects; it resolves to null when the
\* asset or the settings are missing or a stage fails, and to a blob only when
\* every stage completed; handleDownload starts a download only for a blob.
C6_RenderNeverRejects ==
    \A r \in RenderIds :
        LET x == renders[r] IN
        /\ x.result # "rejected"
        /\ x.pc = "done" <=> x.result \in {"null", "blob"}
        /\ (x.pc = "done" /\ (x.startAudio = NULL \/ x.startSettings = NULL))
              => x.result = "null"
        /\ (x.pc = "done" /\ (x.ctx = NULL \/ x.mix = NULL \/ x.crush = NULL))
              => x.result = "null"
        /\ x.download => (x.caller = "download" /\ x.result = "blob")

\* one download whose render failed after the graph was built (no download
\* started) next to one that delivered a blob (download started)
C6_Witness ==
    \E r, q \in RenderIds :
        /\ renders[r].caller = "download" /\ renders[r].pc = "done"
        /\ renders[r].mix # NULL /\ renders[r].result = "null" /\ ~renders[r].download
        /\ renders[q].caller = "download" /\ renders[q].result = "blob"
        /\ renders[q].download

InFlight(r) == renders[r].pc \in {"awaitReverb", "awaitRender"}

\* C7: at no time are two renders of the session between start and completion.
C7_OneRenderAtATime ==
    Cardinality({r \in RenderIds : InFlight(r)}) <= 1

\* C8: everything a render applies comes from the settings and the ambient
\* asset the session held when the call started.
C8_RenderSnapshot ==
    \A r \in RenderIds :
        LET x == renders[r] IN
        /\ x.mix # NULL =>
              /\ x.mix.dryGain = OfflineDryGain(x.startSettings)
              /\ x.mix.wetGain = OfflineWetGain(x.startSettings)
              /\ (x.mix.ambient = NULL) <=> (x.startAmbient = NULL)
              /\ x.mix.ambient # NULL => x.mix.ambient.buffer = x.startAmbient
        /\ x.crush # NULL => x.crush.intensity = CrushIntensity(x.startSettings)

\* inputLength * 100 / slowdown rounded to the nearest integer
Round(n, d) == (2 * n + d) \div (2 * d)

\* C9: the rendered artifact has round(inputLength * 100 / slowdown) frames.
C9_RenderLength ==
    \A r \in RenderIds :
        renders[r].result = "blob"
        => renders[r].ctx.length
             = Round(renders[r].startAudio.length * 100, renders[r].startSettings.slowdown)

\* ========================================================== encoder claims
\* little-endian fields read back from the byte stream (offsets from 0)
ReadU16(bytes, off) == bytes[off + 1] + 256 * bytes[off + 2]
ReadU32(bytes, off) ==
    bytes[off + 1] + 256 * bytes[off + 2] + 65536 * bytes[off + 3]
        + 16777216 * bytes[off + 4]
ReadTag(bytes, off) == SubSeq(bytes, off + 1, off + 4)

\* C10: audioBufferToWav writes 44 + 2*F*C bytes: the RIFF/WAVE header with
\* its sizes, format 1, C, R, byte rate R*C*2, block alignment C*2, 16 bits,
\* then the sample of frame i, channel c at byte offset 44 + 2*(i*C + c).
C10_WavLayout ==
    wavOut # <<>> =>
        LET F == wavIn.length
            C == wavIn.numberOfChannels
            R == wavIn.sampleRate
        IN  /\ Len(wavOut) = 44 + 2 * F * C
            /\ \A k \in 1..Len(wavOut) : wavOut[k] \in 0..255
            /\ ReadTag(wavOut, 0) = <<82, 73, 70, 70>>
            /\ ReadU32(wavOut, 4) = 36 + 2 * F * C
            /\ ReadTag(wavOut, 8) = <<87, 65, 86, 69>>
            /\ ReadTag(wavOut, 12) = <<102, 109, 116, 32>>
            /\ ReadU32(wavOut, 16) = 16
            /\ ReadU16(wavOut, 20) = 1
            /\ ReadU16(wavOut, 22) = C
            /\ ReadU32(wavOut, 24) = R
            /\ ReadU32(wavOut, 28) = R * C * 2
            /\ ReadU16(wavOut, 32) = C * 2
            /\ ReadU16(wavOut, 34) = 16
            /\ ReadTag(wavOut, 36) = <<100, 97, 116, 97>>
            /\ ReadU32(wavOut, 40) = 2 * F * C
            /\ \A i \in 0..(F - 1), c \in 0..(C - 1) :
                  SubSeq(wavOut, 44 + 2 * (i * C + c) + 1, 44 + 2 * (i * C + c) + 2)
                     = EncodeSample(wavIn.channels[c + 1][i + 1])

\* a stereo buffer of two frames whose channels differ, encoded
C10_Witness ==
    /\ wavOut # <<>>
    /\ wavIn.numberOfChannels = 2 /\ wavIn.length = 2
    /\ wavIn.channels[1] # wavIn.channels[2]
    /\ wavIn.channels[1][1] # wavIn.channels[1][2]

\* the signed 16-bit integer stored at byte offset off
ReadI16(bytes, off) ==
    LET u == ReadU16(bytes, off)
    IN  IF u >= 32768 THEN u - 65536 ELSE u

\* the Int16 stored for frame i, channel c (both counted from 0)
StoredAt(i, c) == ReadI16(wavOut, 44 + 2 * (i * wavIn.numberOfChannels + c))

Abs(x) == IF x < 0 THEN -x ELSE x

\* C11: every sample, also one outside [-1, 1], is clamped to [-1, 1] and then
\* scaled by 32768 when negative and by 32767 otherwise; the integer stored is
\* that product with its fraction dropped, it lies in -32768..32767 and is never
\* reduced modulo 2^16: samples of 1 and above store 32767, samples of -1 and
\* below store -32768.
C11_ClampThenScale ==
    wavOut # <<>> =>
        \A i \in 0..(wavIn.length - 1), c \in 0..(wavIn.numberOfChannels - 1) :
            LET n == wavIn.channels[c + 1][i + 1]
                x == IF n > SampleDen THEN SampleDen
                     ELSE IF n < -SampleDen THEN -SampleDen ELSE n
                scaled == IF x < 0 THEN x * 32768 ELSE x * 32767
                v == StoredAt(i, c)
            IN  /\ scaled \in (-32768 * SampleDen)..(32767 * SampleDen)
                /\ v = Trunc(scaled, SampleDen)
                /\ v \in -32768..32767
                /\ n >= SampleDen => v = 32767
                /\ n <= -SampleDen => v = -32768
                /\ (n < 0) <=> (v < 0)

\* an encoded buffer holding a sample above 1 and a sample below -1
C11_Witness ==
    /\ wavOut # <<>>
    /\ \E i, j \in 1..wavIn.length, c, e \in 1..wavIn.numberOfChannels :
          /\ wavIn.channels[c][i] > SampleDen
          /\ wavIn.channels[e][j] < -SampleDen

\* C12: for every sample x in [-1, 1], at every frame and channel, the stored
\* Int16 v decoded by the inverse scaling (v / 32768 for v < 0, v / 32767
\* otherwise) is within 1 / 32767 of x.
C12_RoundTrip ==
    wavOut # <<>> =>
        \A i \in 0..(wavIn.length - 1), c \in 0..(wavIn.numberOfChannels - 1) :
            LET n == wavIn.channels[c + 1][i + 1]
                v == StoredAt(i, c)
                scale == IF v < 0 THEN 32768 ELSE 32767
            IN  (n \in (-SampleDen)..SampleDen)
                    => Abs(n * scale - v * SampleDen) <= (SampleDen * scale) \div 32767

\* a stereo frame holding a negative and a positive fraction strictly inside
\* (-1, 1), and a frame holding the two ends -1 and 1, encoded
C12_Witness ==
    /\ wavOut # <<>>
    /\ wavIn.numberOfChannels = 2 /\ wavIn.length = 2
    /\ wavIn.channels[1][1] = -1 /\ wavIn.channels[2][1] = 1
    /\ wavIn.channels[1][2] = -SampleDen /\ wavIn.channels[2][2] = SampleDen

\* ===================================================== load failure claims
\* C18: a failing loadAmbientSound resolves (it never rejects) and leaves the
\* session without ambient audio; on a session with a primary asset a later
\* play() starts playback with no ambient instance, and a later
\* createProcessedAudioBlob() goes ahead and delivers its artifact with no
\* ambient source in the mix.
C18_Step ==
    /\ AmbientFail => (ambientPc' = "resolved" /\ ambientBuffer' = NULL)
    /\ (ambientBuffer = NULL /\ audioBuffer # NULL /\ Play(NoArg))
          => (playing' /\ sourceNode' # NULL /\ ambientSourceNode' = NULL)
    /\ \A r \in RenderIds :
          /\ (audioBuffer # NULL /\ effectsSettings # NULL
                  /\ CreateProcessedAudioBlob(r, FALSE))
                => renders'[r].pc = "awaitReverb"
          /\ (ambientBuffer = NULL /\ RenderMix(r, FALSE))
                => (renders'[r].pc = "awaitRender" /\ renders'[r].mix.ambient = NULL)
          /\ RenderFinish(r, FALSE) => renders'[r].result = "blob"

C18_AmbientFailure == [][C18_Step]_vars

\* the session as the constructor left it, apart from settings and ambient
PreLoad ==
    /\ audioBuffer = NULL /\ ~processingReady
    /\ lowpassNode = NULL /\ highpassNode = NULL /\ compressorNode = NULL
    /\ gainNode = NULL /\ reverbNode = NULL /\ analyserNode = NULL
    /\ sourceNode = NULL /\ dryGain = NULL /\ wetGain = NULL
    /\ ~isPlaying

\* C19: when the decode of the primary asset fails, loadAudioFile rejects and
\* the session stays as before the load: no buffer, no nodes, processingReady
\* false; play() changes nothing, isPlaying() stays false and
\* createProcessedAudioBlob() resolves to null, until a later load succeeds.
C19_Step ==
    /\ (PreLoad /\ DecodeFail) => (loadPc' = "rejected" /\ PreLoad')
    /\ (loadPc' = "rejected") => PreLoad'
    /\ (loadPc = "rejected" /\ Play(NoArg))
          => (UNCHANGED <<transportVars, playVars>> /\ ~isPlaying')
    /\ \A r \in RenderIds, f \in BOOLEAN :
          (loadPc = "rejected" /\ CreateProcessedAudioBlob(r, f))
              => (renders'[r].pc = "done" /\ renders'[r].result = "null")
    /\ (loadPc = "rejected" /\ LoadAudioFile) => loadPc' = "decoding"
    /\ (\E a \in Assets : DecodeOk(a)) => (audioBuffer' # NULL /\ processingReady')

C19_DecodeFailure == [][C19_Step]_vars

\* after a failed decode: play() was called, settings are present, and a render
\* came back null for want of an asset
C19_Witness ==
    /\ loadPc = "rejected" /\ PreLoad
    /\ lastCall.op = "play"
    /\ effectsSettings # NULL
    /\ \E r \in RenderIds :
          /\ renders[r].pc = "done" /\ renders[r].result = "null"
          /\ renders[r].startAudio = NULL /\ renders[r].startSettings # NULL

\* ================================================ parameter mapping claims
\* C13: for settings {slowdown: 85, reverb: 30, lowpass: 50} every graph gets
\* lowpass 10050 Hz with Q 3.5, highpass 120 Hz, compressor threshold -28.8 and
\* ratio 7.2, dry gain 0.7, wet gain 0.18 and playback rate 0.85: the live nodes
\* when the settings are applied to a loaded session, the live gains and source
\* when play builds the chain, and the offline graph of a render.
C13_Step ==
    LET e == Settings(85, 30, 50)
    IN  /\ (processingReady /\ audioBuffer # NULL /\ SetEffectsSettings(e))
              => /\ lowpassNode' = [frequency |-> 10050, Q |-> 3500]
                 /\ highpassNode' = [frequency |-> 120]
                 /\ compressorNode' = [threshold |-> -28800, ratio |-> 7200]
        /\ (audioBuffer # NULL /\ effectsSettings = e /\ Play(NoArg))
              => /\ dryGain' = [gain |-> 700]
                 /\ wetGain' = [gain |-> 180]
                 /\ sourceNode'.playbackRate = 850
        /\ \A r \in RenderIds :
              (renders'[r].graph # NULL /\ renders'[r].startSettings = e)
                  => renders'[r].graph =
                        [playbackRate |-> 850,
                         lowpass |-> [frequency |-> 10050, Q |-> 3500],
                         highpass |-> [frequency |-> 120],
                         compressor |-> [threshold |-> -28800, ratio |-> 7200]]
        /\ \A r \in RenderIds :
              (renders'[r].mix # NULL /\ renders'[r].mixSettings = e)
                  => /\ renders'[r].mix.dryGain = [gain |-> 700]
                     /\ renders'[r].mix.wetGain = [gain |-> 180]

C13_WorkedExample == [][C13_Step]_vars

\* C14: for settings {slowdown: 100, reverb: 0, lowpass: 0} a render sets
\* lowpass 20000 Hz, wet gain 0, dry gain 1 and playback rate 1.0, its artifact
\* has exactly the frames of the input asset, and the bit crusher hands the
\* rendered buffer on unchanged; a preview uses the same gains and rate.
C14_PassThrough ==
    LET e == Settings(100, 0, 0)
    IN  /\ \A r \in RenderIds :
              LET x == renders[r]
              IN  (x.startSettings = e /\ effectsSettings = e) =>
                    /\ x.graph # NULL =>
                          /\ x.graph.lowpass.frequency = 20000
                          /\ x.graph.playbackRate = 1000
                          /\ x.ctx.length = x.startAudio.length
                    /\ x.mix # NULL =>
                          /\ x.mix.wetGain.gain = 0
                          /\ x.mix.dryGain.gain = 1000
                    /\ x.result = "blob" =>
                          /\ x.crush.intensity = 0
                          /\ x.renderedBuffer.length = x.startAudio.length
                          /\ x.bitCrushedBuffer = x.renderedBuffer
        /\ (playing /\ sourceNode.settings = e)
              => /\ sourceNode.playbackRate = 1000
                 /\ dryGain.gain = 1000
                 /\ wetGain.gain = 0

\* a pass-through render that delivered its artifact while a preview plays
C14_Witness ==
    /\ effectsSettings = Settings(100, 0, 0)
    /\ renders[1].startSettings = Settings(100, 0, 0)
    /\ renders[1].result = "blob"
    /\ renders[1].renderedBuffer.channels[1][1] # renders[1].renderedBuffer.channels[1][2]
    /\ playing /\ sourceNode.settings = Settings(100, 0, 0)

\* C15: whatever integers the settings hold, every coefficient on a graph is
\* inside its valid range: lowpass frequency in [100, 20000], dry and wet gain
\* in [0, 1], playback rate in [0.7, 1.0], live and offline.
C15_CoefficientsClamped ==
    /\ lowpassNode # NULL => lowpassNode.frequency \in 100..20000
    /\ dryGain # NULL => dryGain.gain \in 0..1000
    /\ wetGain # NULL => wetGain.gain \in 0..1000
    /\ sourceNode # NULL => sourceNode.playbackRate \in 700..1000
    /\ \A r \in RenderIds :
          /\ renders[r].graph # NULL =>
                /\ renders[r].graph.lowpass.frequency \in 100..20000
                /\ renders[r].graph.playbackRate \in 700..1000
          /\ renders[r].mix # NULL =>
                /\ renders[r].mix.dryGain.gain \in 0..1000
                /\ renders[r].mix.wetGain.gain \in 0..1000

\* the cutoff f is the one the claim gives for lowpass l
CutoffFor(f, l) ==
    /\ f * 100 = 100 * 100 + 19900 * (100 - l)
    /\ f \in 100..20000
    /\ l = 0 => f = 20000
    /\ l = 100 => f = 100
    /\ \A k \in 0..100 :
          /\ k <= l => AppliedLowpass(Settings(85, 30, k)).frequency >= f
          /\ k >= l => AppliedLowpass(Settings(85, 30, k)).frequency <= f
          /\ k <= l => OfflineLowpass(Settings(85, 30, k)).frequency >= f
          /\ k >= l => OfflineLowpass(Settings(85, 30, k)).frequency <= f

\* C16: for every integer lowpass in 0..100 the cutoff set on the lowpass
\* filter, live (when the settings are applied to a loaded session) and offline
\* (in a render), is 100 + 19900 * (100 - lowpass) / 100; it does not increase
\* as lowpass increases and lies in [100, 20000], 20000 at 0 and 100 at 100.
C16_Step ==
    /\ \A e \in SweepSettings :
          (e.lowpass \in 0..100 /\ processingReady /\ audioBuffer # NULL
              /\ SetEffectsSettings(e))
          => CutoffFor(lowpassNode'.frequency, e.lowpass)
    /\ \A r \in RenderIds :
          (renders'[r].graph # NULL /\ renders'[r].startSettings.lowpass \in 0..100)
          => CutoffFor(renders'[r].graph.lowpass.frequency,
                       renders'[r].startSettings.lowpass)

SameSamples(a, b) ==
    /\ a.numberOfChannels = b.numberOfChannels
    /\ a.length = b.length
    /\ \A c \in 1..a.numberOfChannels, k \in 1..a.length :
          a.channels[c][k] * b.den = b.channels[c][k] * a.den

\* C17: for every lowpass in 0..19 and every rendered buffer, the buffer handed
\* to the encoder holds, in every channel and at every index, the sample the
\* offline render produced: the bit crusher is the identity.
C17_CrushIdentity ==
    (bitCrushedBuffer # NULL /\ crushLowpass \in 0..19)
        => SameSamples(renderedBuffer, bitCrushedBuffer)

\* lowpass 19 on a stereo buffer of two frames that holds a fraction the
\* 16-bit grid cannot represent
C17_Witness ==
    /\ bitCrushedBuffer # NULL /\ crushLowpass = 19
    /\ renderedBuffer.numberOfChannels = 2 /\ renderedBuffer.length = 2
    /\ renderedBuffer.channels[1][1] = 1 /\ renderedBuffer.channels[1][2] = -1
    /\ renderedBuffer.channels[2][1] = SampleDen

\* ================================================= ambient playback claims
\* the ambient source playAmbientSound starts: looped, from the beginning
LoopedAmbient == [buffer |-> ambientBuffer, loop |-> TRUE, offset |-> 0]

\* C20: the ambient track runs in lock-step with the primary track.  Every
\* step into Playing (play, or seekTo while Playing) on a loaded session with
\* an ambient asset leaves exactly one started ambient instance, looped; every
\* step out of Playing leaves none; no state has an ambient instance active
\* while the session is not Playing; and the ambient instance always starts at
\* offset 0, whatever position play or seekTo was given.
C20_Step ==
    /\ (/\ audioBuffer # NULL /\ ambientBuffer # NULL
        /\ WritesTransport
        /\ \/ lastCall'.op = "play" /\ Play(lastCall'.arg)
           \/ playing /\ lastCall'.op = "seekTo" /\ SeekTo(lastCall'.arg.value))
          => /\ playing'
             /\ ambientSourceNode' = LoopedAmbient
             /\ ambientActive' = 1
    /\ (~playing /\ playing' /\ ambientBuffer # NULL)
          => (ambientSourceNode' = LoopedAmbient /\ ambientActive' = 1)
    /\ (playing /\ ~playing')
          => (ambientSourceNode' = NULL /\ ambientActive' = 0)
    /\ ~playing' => (ambientSourceNode' = NULL /\ ambientActive' = 0)
    /\ ambientSourceNode' # NULL
          => (ambientSourceNode'.loop /\ ambientSourceNode'.offset = 0)
    /\ ambientActive' = IF ambientSourceNode' # NULL THEN 1 ELSE 0

C20_AmbientLockStep == [][C20_Step]_vars

\* playing with the ambient loop after a seekTo(10) issued while playing, an
\* earlier pause or restart having stopped a primary instance
C20_Witness ==
    /\ playing /\ ambientSourceNode # NULL /\ ambientActive = 1
    /\ lastCall = [op |-> "seekTo", arg |-> Arg(10), wasPlaying |-> TRUE]
    /\ sourceNode.offset = 10 /\ ambientSourceNode.offset = 0
    /\ \E i \in InstanceIds : instances[i] = "stopped"

\* C21: for every lowpass in 20..100, with intensity = lowpass / 100,
\* bitReduction = floor((intensity - 0.2) * 5) and N = max(1, floor(intensity * 4)),
\* the crushed buffer has the channel count and the length of the rendered one
\* and, per channel, its sample at index i is floor(input[j] * 32767) with the
\* low bitReduction bits cleared, over 32767, where j = i - (i mod N).
C21_CrushedSamples ==
    (bitCrushedBuffer # NULL /\ crushLowpass \in 20..100) =>
        LET bitReduction == ((crushLowpass - 20) * 5) \div 100
            N == IF (crushLowpass * 4) \div 100 > 1 THEN (crushLowpass * 4) \div 100 ELSE 1
            in == renderedBuffer
            out == bitCrushedBuffer
        IN  /\ bitReduction \in 0..4
            /\ out.numberOfChannels = in.numberOfChannels
            /\ out.length = in.length
            /\ \A c \in 1..in.numberOfChannels, i \in 0..(in.length - 1) :
                  LET j == i - (i % N)
                      int16 == (in.channels[c][j + 1] * 32767) \div in.den
                      cleared == int16 - (int16 % Pow2(bitReduction))
                  IN  out.channels[c][i + 1] * 32767 = cleared * out.den

\* ============================================================ graph claims
\* the connections of a graph by the kinds of the nodes they join
KindEdges(E) == {<<c.from.kind, c.to.kind>> : c \in E}

AmbientKinds == {"ambientSource", "ambientGain"}

\* the connections of the effect chain and those of the ambient chain
EffectPart(E) == {c \in E : c.from.kind \notin AmbientKinds}
AmbientPart(E) == {c \in E : c.from.kind \in AmbientKinds \/ c.to.kind \in AmbientKinds}

\* source -> high-pass -> low-pass -> compressor, compressor -> dry -> main
\* gain, compressor -> convolution -> wet -> main gain
CanonicalStages ==
    {<<"source", "highpass">>, <<"highpass", "lowpass">>, <<"lowpass", "compressor">>,
     <<"compressor", "dryGain">>, <<"dryGain", "gain">>,
     <<"compressor", "reverb">>, <<"reverb", "wetGain">>, <<"wetGain", "gain">>}

\* every ambient connection is ambient source -> ambient gain -> destination
AmbientApart(E) ==
    KindEdges(AmbientPart(E)) \subseteq
        {<<"ambientSource", "ambientGain">>, <<"ambientGain", "destination">>}

DryStages ==
    {c.to : c \in {d \in connections :
                    /\ d.from = Stage("compressor") /\ d.to.kind = "dryGain"
                    /\ Connect(d.to, Stage("gain")) \in connections}}

WetStages ==
    {c.to : c \in {d \in connections :
                    /\ d.from = Stage("reverb") /\ d.to.kind = "wetGain"
                    /\ Connect(d.to, Stage("gain")) \in connections}}

\* C25: while a loaded session plays, whatever play, pause and seekTo calls
\* came before, the compressor feeds the main gain through one dry gain stage
\* and the convolution through one wet gain stage, those of the most recent
\* play, so that the dry and wet gains in effect are the ones that play set.
C25_OneDryWetStage ==
    playing =>
        /\ DryStages = {Node("dryGain", sourceNode.id)}
        /\ WetStages = {Node("wetGain", sourceNode.id)}

\* ======================================================== instance claims
\* the primary playback instances that were started and not stopped
Started == {i \in InstanceIds : instances[i] = "started"}

\* C23: isPlaying() is true exactly when one primary playback instance exists,
\* and that instance is the only one started and not stopped; at most one
\* ambient instance is active.  A play call on a loaded session stops the
\* instance that was playing and starts one that was never started before; an
\* instance that was started is never started again and a stopped instance
\* stays stopped.
C23_Step ==
    /\ isPlaying' <=> sourceNode' # NULL
    /\ Started' = IF sourceNode' # NULL THEN {sourceNode'.id} ELSE {}
    /\ ambientActive' \in 0..1
    /\ \A i \in InstanceIds :
          /\ instances[i] = "stopped" => instances'[i] = "stopped"
          /\ instances[i] = "started" => instances'[i] \in {"started", "stopped"}
    /\ (audioBuffer # NULL /\ WritesTransport /\ lastCall'.op = "play"
            /\ Play(lastCall'.arg)) =>
          /\ instances[sourceNode'.id] = "free"
          /\ sourceNode # NULL => instances'[sourceNode.id] = "stopped"

C23_OneInstance == [][C23_Step]_vars

\* a third instance plays, with the ambient loop, after two were stopped
C23_Witness ==
    /\ playing /\ sourceNode # NULL /\ ambientActive = 1
    /\ Cardinality({i \in InstanceIds : instances[i] = "stopped"}) = 2
    /\ lastCall.op = "play" /\ lastCall.wasPlaying

\* ================================================== offline ambient claims
\* C24: in a render that has an ambient track, the ambient source is looped
\* whenever the ambient asset is shorter than the stretched primary asset
\* (length * 100 / slowdown of the render), the ambient signal reaches every
\* frame of the render (the source loops or is at least as long as the offline
\* context), and the context is no longer than round(length * 100 / slowdown).
C24_AmbientCovers ==
    \A r \in RenderIds :
        LET x == renders[r]
        IN  (x.mix # NULL /\ x.mix.ambient # NULL) =>
              /\ (x.mix.ambient.buffer.length * x.startSettings.slowdown
                      < x.startAudio.length * 100) => x.mix.ambient.loop
              /\ x.mix.ambient.loop \/ x.mix.ambient.buffer.length >= x.ctx.length
              /\ x.ctx.length
                    <= Round(x.startAudio.length * 100, x.startSettings.slowdown)

\* ================================================== settings in effect claims
\* C26: whenever the session plays and settings were passed to
\* setEffectsSettings, the live graph carries the coefficients the mapping
\* gives for the most recent ones: low-pass frequency and Q, high-pass
\* frequency, compressor threshold and ratio, dry and wet gain, playback rate.
C26_LiveFollowsSettings ==
    (playing /\ effectsSettings # NULL) =>
        LET e == effectsSettings
        IN  /\ lowpassNode = [frequency |-> 100 + (19900 * (100 - e.lowpass)) \div 100,
                               Q |-> 1000 + (e.lowpass * 5000) \div 100]
            /\ highpassNode = [frequency |-> 20 + (e.lowpass * 200) \div 100]
            /\ compressorNode =
                  [threshold |-> -24000 - ((e.lowpass + e.reverb) * 12000) \div 200,
                   ratio |-> 4000 + ((e.lowpass + e.reverb) * 8000) \div 200]
            /\ dryGain = [gain |-> 1000 - (e.reverb * 1000) \div 100]
            /\ wetGain = [gain |-> (e.reverb * 600) \div 100]
            /\ sourceNode.playbackRate = (e.slowdown * 1000) \div 100

\* ============================================================ position claims
\* host time at which the playing source was started: play sets
\* startTime = currentTime - offset and then calls start(0, offset)
StartedAt == startTime + sourceNode.offset

\* position in the primary asset the playing source has reached, in
\* thousandths of a second: its offset plus the elapsed host time scaled by its
\* playback rate
ReachedPosition == sourceNode.offset * 1000 + (now - StartedAt) * sourceNode.playbackRate

\* C27: while the session plays, getCurrentTime() is the position in the
\* primary asset the playback instance has reached, offset + elapsed host time
\* * slowdown / 100, so that play(getCurrentTime()) after a pause resumes at
\* the sample where playback stopped.
C27_ReportedPosition ==
    (playing /\ sourceNode # NULL) => getCurrentTime * 1000 = ReachedPosition

\* ====================================================== ambient volume claims
\* C28: once setAmbientVolume(v) was called, the ambient track plays at gain v
\* whenever it plays, through every later pause, play and seekTo and also when
\* the call came before the first play, until setAmbientVolume is called again.
C28_AmbientVolumeKept ==
    (ambientSourceNode # NULL /\ lastAmbientVolume.given)
        => ambientGainNode = [gain |-> lastAmbientVolume.value]

\* =============================================================== player claims
\* C29: the player's automatic end-of-track stop (pause, reset to 0) fires
\* only when the playing instance has played the asset to its end: at that
\* step the position it has reached is at least the duration of the track.
C29_Step ==
    (UpdateTime /\ EndOfTrack /\ playing /\ sourceNode # NULL)
        => ReachedPosition >= TrackDuration * 1000

C29_StopsAtEnd == [][C29_Step]_vars

\* ================================================================ page claims
\* C30: whenever the page shows the track as processed, the processor it holds
\* has a decoded primary asset and holds the settings of the last Apply.
C30_ProcessedIsReady ==
    isProcessed =>
        /\ audioBuffer # NULL
        /\ currentEffects # NULL
        /\ effectsSettings = currentEffects

====
